---- MODULE Spec2Model ----
(***************************************************************************)
(* The binary module decoder of src/runtime/disassembler.rs, the byte      *)
(* layout it shares with the encoder, and the stack machine that runs an   *)
(* exported function of a decoded module.                                  *)
(*                                                                         *)
(* Bytes are naturals 0..255, a buffer is a sequence of bytes, the cursor  *)
(* is a 0-based offset into it.  ValueType is "I32" / "I64", a Type is     *)
(* <<params, results>>, an Instr is <<"LocalGet", i>> or <<"I32Add">>, a   *)
(* String is the sequence of its UTF-8 bytes.                              *)
(***************************************************************************)
EXTENDS Integers, Sequences, FiniteSets, TLC

\* ------------------------------------------------------------------------
\* op_codes: the byte values the decoder matches on
\* ------------------------------------------------------------------------
SECTION_TYPE == 1
SECTION_FUNC == 3
SECTION_EXPORT == 7
SECTION_CODE == 10
TYPE_FUNC == 96
VT_I32 == 127
VT_I64 == 126
OP_LOCAL_GET == 32
OP_I32_ADD == 106
OP_END == 11
EXPORT_FUNC == 0
MAGIC == <<0, 97, 115, 109>>
VERSION == 1
HEADER_LEN == 8

\* ------------------------------------------------------------------------
\* Outcomes.  A Result is Ok(value) or Err(RuntimeError); a call that
\* unwinds instead of returning is a Panic.  pos is the cursor after the
\* call, sz the offsets at which the call read a size byte it then ignores.
\* ------------------------------------------------------------------------
Ok(v, p, s) == [tag |-> "Ok", err |-> "None", val |-> v, pos |-> p, sz |-> s]

Err(e, p, s) == [tag |-> "Err", err |-> e, val |-> <<>>, pos |-> p, sz |-> s]

Panic(e, p, s) == [tag |-> "Panic", err |-> e, val |-> <<>>, pos |-> p, sz |-> s]

\* ------------------------------------------------------------------------
\* Reader: a byte buffer and a read offset.  Every read needs its bytes to
\* be there; the decoder calls byte(), bytes(n) and dword() as plain values
\* (u8, &[u8], u32), so a read that fails cannot come back as an Err of the
\* caller: it unwinds the decoder.
\* ------------------------------------------------------------------------
CanRead(buf, pos, n) == pos + n <= Len(buf)

ReaderLen(buf) == Len(buf)

ReaderByte(buf, pos) == buf[pos + 1]

ReaderBytes(buf, pos, n) == SubSeq(buf, pos + 1, pos + n)

ReaderDword(buf, pos) ==
    buf[pos + 1] + 256 * buf[pos + 2] + 65536 * buf[pos + 3] + 16777216 * buf[pos + 4]

EndOfInput(p, s) == Panic("UnexpectedEndOfInput", p, s)

\* let _size = binary.byte(): the offset of a size byte, once it was read
SizeRead(buf, pos) == IF CanRead(buf, pos, 1) THEN {pos} ELSE {}

WithSz(r, s) == [r EXCEPT !.sz = r.sz \cup s]

\* ------------------------------------------------------------------------
\* check_header
\* ------------------------------------------------------------------------
\* mutant: the length test off by one
check_header_OffByOne(buf, pos) ==
    IF ReaderLen(buf) <= HEADER_LEN THEN Err("ModuleToShort", pos, {})
    ELSE IF ReaderBytes(buf, pos, 4) # MAGIC THEN Err("WrongMagicHeader", pos + 4, {})
    ELSE IF ReaderDword(buf, pos + 4) # VERSION THEN Err("WrongVersionHeader", pos + 8, {})
    ELSE Ok(<<>>, pos + 8, {})

check_header(buf, pos) ==
    IF ReaderLen(buf) < HEADER_LEN THEN Err("ModuleToShort", pos, {})
    ELSE IF ~CanRead(buf, pos, 4) THEN EndOfInput(pos, {})
    ELSE IF ReaderBytes(buf, pos, 4) # MAGIC THEN Err("WrongMagicHeader", pos + 4, {})
    ELSE IF ~CanRead(buf, pos + 4, 4) THEN EndOfInput(pos + 4, {})
    ELSE IF ReaderDword(buf, pos + 4) # VERSION THEN Err("WrongVersionHeader", pos + 8, {})
    ELSE Ok(<<>>, pos + 8, {})

\* ------------------------------------------------------------------------
\* parse_type_section
\* ------------------------------------------------------------------------
parse_valuetype(buf, pos) ==
    IF ~CanRead(buf, pos, 1) THEN EndOfInput(pos, {})
    ELSE IF ReaderByte(buf, pos) = VT_I32 THEN Ok("I32", pos + 1, {})
    ELSE IF ReaderByte(buf, pos) = VT_I64 THEN Ok("I64", pos + 1, {})
    ELSE Err("InvalidValueType", pos + 1, {})

\* for _ in 0..n { v.push(parse_valuetype(binary)?) }
RECURSIVE ValueTypeLoop(_, _, _, _)
ValueTypeLoop(buf, pos, n, acc) ==
    IF n = 0 THEN Ok(acc, pos, {})
    ELSE LET r == parse_valuetype(buf, pos)
         IN IF r.tag # "Ok" THEN r
            ELSE ValueTypeLoop(buf, r.pos, n - 1, Append(acc, r.val))

\* one signature: the func marker, the params, the results
ParseType(buf, pos) ==
    IF ~CanRead(buf, pos, 2) THEN EndOfInput(pos, {})
    ELSE LET ps == ValueTypeLoop(buf, pos + 2, ReaderByte(buf, pos + 1), <<>>)
         IN IF ps.tag # "Ok" THEN ps
            ELSE IF ~CanRead(buf, ps.pos, 1) THEN EndOfInput(ps.pos, {})
            ELSE LET rs == ValueTypeLoop(buf, ps.pos + 1, ReaderByte(buf, ps.pos), <<>>)
                 IN IF rs.tag # "Ok" THEN rs
                    ELSE Ok(<<ps.val, rs.val>>, rs.pos, {})

RECURSIVE TypeLoop(_, _, _, _)
TypeLoop(buf, pos, n, acc) ==
    IF n = 0 THEN Ok(acc, pos, {})
    ELSE LET r == ParseType(buf, pos)
         IN IF r.tag # "Ok" THEN r
            ELSE TypeLoop(buf, r.pos, n - 1, Append(acc, r.val))

parse_type_section(buf, pos) ==
    IF ~CanRead(buf, pos, 1) THEN EndOfInput(pos, {})
    ELSE IF ReaderByte(buf, pos) # SECTION_TYPE THEN Err("InvalidSectionCode", pos + 1, {})
    ELSE IF ~CanRead(buf, pos + 1, 2) THEN EndOfInput(pos + 1, SizeRead(buf, pos + 1))
    ELSE LET r == TypeLoop(buf, pos + 3, ReaderByte(buf, pos + 2), <<>>)
         IN [r EXCEPT !.sz = {pos + 1}]

\* ------------------------------------------------------------------------
\* parse_func_section
\* ------------------------------------------------------------------------
RECURSIVE FuncLoop(_, _, _, _)
FuncLoop(buf, pos, n, acc) ==
    IF n = 0 THEN Ok(acc, pos, {})
    ELSE IF ~CanRead(buf, pos, 1) THEN EndOfInput(pos, {})
    ELSE FuncLoop(buf, pos + 1, n - 1, Append(acc, ReaderByte(buf, pos)))

\* mutant: the size byte is held against the count
parse_func_section_SizeChecked(buf, pos) ==
    IF ~CanRead(buf, pos, 1) THEN EndOfInput(pos, {})
    ELSE IF ReaderByte(buf, pos) # SECTION_FUNC THEN Err("InvalidSectionCode", pos + 1, {})
    ELSE IF ~CanRead(buf, pos + 1, 2) THEN EndOfInput(pos + 1, SizeRead(buf, pos + 1))
    ELSE IF ReaderByte(buf, pos + 1) # ReaderByte(buf, pos + 2) + 1
         THEN Err("InvalidSectionCode", pos + 3, {pos + 1})
    ELSE LET r == FuncLoop(buf, pos + 3, ReaderByte(buf, pos + 2), <<>>)
         IN [r EXCEPT !.sz = {pos + 1}]

parse_func_section(buf, pos) ==
    IF ~CanRead(buf, pos, 1) THEN EndOfInput(pos, {})
    ELSE IF ReaderByte(buf, pos) # SECTION_FUNC THEN Err("InvalidSectionCode", pos + 1, {})
    ELSE IF ~CanRead(buf, pos + 1, 2) THEN EndOfInput(pos + 1, SizeRead(buf, pos + 1))
    ELSE LET r == FuncLoop(buf, pos + 3, ReaderByte(buf, pos + 2), <<>>)
         IN [r EXCEPT !.sz = {pos + 1}]

\* ------------------------------------------------------------------------
\* parse_export_section
\* ------------------------------------------------------------------------
IsCont(b) == b >= 128 /\ b <= 191

\* std::str::from_utf8(..).is_ok(): the well-formed UTF-8 byte sequences
RECURSIVE ValidUtf8(_)
ValidUtf8(bs) ==
    IF bs = <<>> THEN TRUE
    ELSE LET n == Len(bs)
             b1 == bs[1]
             Rest(k) == SubSeq(bs, k + 1, n)
         IN IF b1 <= 127 THEN ValidUtf8(Rest(1))
            ELSE IF b1 >= 194 /\ b1 <= 223
                 THEN n >= 2 /\ IsCont(bs[2]) /\ ValidUtf8(Rest(2))
            ELSE IF b1 >= 224 /\ b1 <= 239
                 THEN /\ n >= 3
                      /\ IsCont(bs[2]) /\ IsCont(bs[3])
                      /\ (b1 = 224 => bs[2] >= 160)
                      /\ (b1 = 237 => bs[2] <= 159)
                      /\ ValidUtf8(Rest(3))
            ELSE IF b1 >= 240 /\ b1 <= 244
                 THEN /\ n >= 4
                      /\ IsCont(bs[2]) /\ IsCont(bs[3]) /\ IsCont(bs[4])
                      /\ (b1 = 240 => bs[2] >= 144)
                      /\ (b1 = 244 => bs[2] <= 143)
                      /\ ValidUtf8(Rest(4))
            ELSE FALSE

\* mutant: the byte after the name is taken for the kind byte
ParseExport_KindAtZero(buf, pos) ==
    IF ~CanRead(buf, pos, 1) THEN EndOfInput(pos, {})
    ELSE LET length == ReaderByte(buf, pos)
             p == pos + 1 + length
         IN IF ~CanRead(buf, pos + 1, length) THEN EndOfInput(pos + 1, {})
            ELSE IF ~ValidUtf8(ReaderBytes(buf, pos + 1, length))
                 THEN Err("InvalidExportName", p, {})
            ELSE IF ~CanRead(buf, p, 2) THEN EndOfInput(p, {})
            ELSE IF ReaderByte(buf, p) # EXPORT_FUNC
                 THEN Err("InvalidExportType", p + 2, {})
            ELSE Ok([name |-> ReaderBytes(buf, pos + 1, length),
                     e_desc |-> <<"FuncExport", 0>>], p + 2, {})

\* one export: length, name, a byte that is dropped, the kind byte
ParseExport(buf, pos) ==
    IF ~CanRead(buf, pos, 1) THEN EndOfInput(pos, {})
    ELSE LET length == ReaderByte(buf, pos)
             p == pos + 1 + length
         IN IF ~CanRead(buf, pos + 1, length) THEN EndOfInput(pos + 1, {})
            ELSE IF ~ValidUtf8(ReaderBytes(buf, pos + 1, length))
                 THEN Err("InvalidExportName", p, {})
            ELSE IF ~CanRead(buf, p, 2) THEN EndOfInput(p, {})
            ELSE IF ReaderByte(buf, p + 1) # EXPORT_FUNC
                 THEN Err("InvalidExportType", p + 2, {})
            ELSE Ok([name |-> ReaderBytes(buf, pos + 1, length),
                     e_desc |-> <<"FuncExport", 0>>], p + 2, {})

RECURSIVE ExportLoop(_, _, _, _)
ExportLoop(buf, pos, n, acc) ==
    IF n = 0 THEN Ok(acc, pos, {})
    ELSE LET r == ParseExport(buf, pos)
         IN IF r.tag # "Ok" THEN r
            ELSE ExportLoop(buf, r.pos, n - 1, Append(acc, r.val))

\* mutant: the section tag is read and not compared
parse_export_section_AnyTag(buf, pos) ==
    IF ~CanRead(buf, pos, 1) THEN EndOfInput(pos, {})
    ELSE IF ~CanRead(buf, pos + 1, 2) THEN EndOfInput(pos + 1, SizeRead(buf, pos + 1))
    ELSE LET r == ExportLoop(buf, pos + 3, ReaderByte(buf, pos + 2), <<>>)
         IN [r EXCEPT !.sz = {pos + 1}]

parse_export_section(buf, pos) ==
    IF ~CanRead(buf, pos, 1) THEN EndOfInput(pos, {})
    ELSE IF ReaderByte(buf, pos) # SECTION_EXPORT THEN Err("InvalidSectionCode", pos + 1, {})
    ELSE IF ~CanRead(buf, pos + 1, 2) THEN EndOfInput(pos + 1, SizeRead(buf, pos + 1))
    ELSE LET r == ExportLoop(buf, pos + 3, ReaderByte(buf, pos + 2), <<>>)
         IN [r EXCEPT !.sz = {pos + 1}]

\* ------------------------------------------------------------------------
\* parse_code_section
\* ------------------------------------------------------------------------
\* for _ in 0..num_locals { locals.push(match binary.byte() { .. }) }
RECURSIVE LocalsLoop(_, _, _, _)
LocalsLoop(buf, pos, n, acc) ==
    IF n = 0 THEN Ok(acc, pos, {})
    ELSE IF ~CanRead(buf, pos, 1) THEN EndOfInput(pos, {})
    ELSE IF ReaderByte(buf, pos) = VT_I32 THEN LocalsLoop(buf, pos + 1, n - 1, Append(acc, "I32"))
    ELSE IF ReaderByte(buf, pos) = VT_I64 THEN LocalsLoop(buf, pos + 1, n - 1, Append(acc, "I64"))
    ELSE Err("InvalidValueType", pos + 1, {})

\* mutant: local.get does not consume its index byte
RECURSIVE InstrLoop_NoOperand(_, _, _)
InstrLoop_NoOperand(buf, pos, acc) ==
    IF ~CanRead(buf, pos, 1) THEN EndOfInput(pos, {})
    ELSE LET b == ReaderByte(buf, pos)
         IN IF b = OP_LOCAL_GET
            THEN IF ~CanRead(buf, pos + 1, 1) THEN EndOfInput(pos + 1, {})
                 ELSE InstrLoop_NoOperand(buf, pos + 1,
                                Append(acc, <<"LocalGet", ReaderByte(buf, pos + 1)>>))
            ELSE IF b = OP_I32_ADD
                 THEN InstrLoop_NoOperand(buf, pos + 1, Append(acc, <<"I32Add">>))
            ELSE IF b = OP_END THEN Ok(acc, pos + 1, {})
            ELSE Err("InvalidInstruction", pos + 1, {})

\* mutant: every local.get decodes with index 0
RECURSIVE InstrLoop_IndexZero(_, _, _)
InstrLoop_IndexZero(buf, pos, acc) ==
    IF ~CanRead(buf, pos, 1) THEN EndOfInput(pos, {})
    ELSE LET b == ReaderByte(buf, pos)
         IN IF b = OP_LOCAL_GET
            THEN IF ~CanRead(buf, pos + 1, 1) THEN EndOfInput(pos + 1, {})
                 ELSE InstrLoop_IndexZero(buf, pos + 2, Append(acc, <<"LocalGet", 0>>))
            ELSE IF b = OP_I32_ADD
                 THEN InstrLoop_IndexZero(buf, pos + 1, Append(acc, <<"I32Add">>))
            ELSE IF b = OP_END THEN Ok(acc, pos + 1, {})
            ELSE Err("InvalidInstruction", pos + 1, {})

\* loop { match binary.byte() { .. } }: ends at the end marker only
RECURSIVE InstrLoop(_, _, _)
InstrLoop(buf, pos, acc) ==
    IF ~CanRead(buf, pos, 1) THEN EndOfInput(pos, {})
    ELSE LET b == ReaderByte(buf, pos)
         IN IF b = OP_LOCAL_GET
            THEN IF ~CanRead(buf, pos + 1, 1) THEN EndOfInput(pos + 1, {})
                 ELSE InstrLoop(buf, pos + 2,
                                Append(acc, <<"LocalGet", ReaderByte(buf, pos + 1)>>))
            ELSE IF b = OP_I32_ADD THEN InstrLoop(buf, pos + 1, Append(acc, <<"I32Add">>))
            ELSE IF b = OP_END THEN Ok(acc, pos + 1, {})
            ELSE Err("InvalidInstruction", pos + 1, {})

\* one function body: the size byte, the locals, the instructions
ParseCode(buf, pos) ==
    IF ~CanRead(buf, pos, 2) THEN EndOfInput(pos, SizeRead(buf, pos))
    ELSE LET ls == LocalsLoop(buf, pos + 2, ReaderByte(buf, pos + 1), <<>>)
         IN IF ls.tag # "Ok" THEN WithSz(ls, {pos})
            ELSE LET is == InstrLoop(buf, ls.pos, <<>>)
                 IN IF is.tag # "Ok" THEN WithSz(is, {pos})
                    ELSE Ok(<<ls.val, is.val>>, is.pos, {pos})

RECURSIVE CodeLoop(_, _, _, _, _)
CodeLoop(buf, pos, n, acc, s) ==
    IF n = 0 THEN Ok(acc, pos, s)
    ELSE LET r == ParseCode(buf, pos)
         IN IF r.tag # "Ok" THEN WithSz(r, s)
            ELSE CodeLoop(buf, r.pos, n - 1, Append(acc, r.val), s \cup r.sz)

parse_code_section(buf, pos) ==
    IF ~CanRead(buf, pos, 1) THEN EndOfInput(pos, {})
    ELSE IF ReaderByte(buf, pos) # SECTION_CODE THEN Err("InvalidSectionCode", pos + 1, {})
    ELSE IF ~CanRead(buf, pos + 1, 2) THEN EndOfInput(pos + 1, SizeRead(buf, pos + 1))
    ELSE CodeLoop(buf, pos + 3, ReaderByte(buf, pos + 2), <<>>, {pos + 1})

\* ------------------------------------------------------------------------
\* parse_binary
\* ------------------------------------------------------------------------
\* funcs.iter().enumerate().map(|(i, f)| Func { f_type: *f, locals: code[i].0,
\* body: code[i].1 }): code[i] is an indexing that unwinds when i is out of range
join_code_func(funcs, code) ==
    IF Len(funcs) > Len(code) THEN Panic("IndexOutOfBounds", 0, {})
    ELSE Ok([i \in 1..Len(funcs) |->
                [f_type |-> funcs[i], locals |-> code[i][1], body |-> code[i][2]]], 0, {})

Module(types, exports, funcs) == [types |-> types, exports |-> exports, funcs |-> funcs]

parse_binary(buf) ==
    LET h == check_header(buf, 0)
    IN IF h.tag # "Ok" THEN h
       ELSE LET t == parse_type_section(buf, h.pos)
       IN IF t.tag # "Ok" THEN t
       ELSE LET f == WithSz(parse_func_section(buf, t.pos), t.sz)
       IN IF f.tag # "Ok" THEN f
       ELSE LET e == WithSz(parse_export_section(buf, f.pos), f.sz)
       IN IF e.tag # "Ok" THEN e
       ELSE LET c == WithSz(parse_code_section(buf, e.pos), e.sz)
       IN IF c.tag # "Ok" THEN c
       ELSE LET j == join_code_func(f.val, c.val)
       IN IF j.tag # "Ok" THEN Panic(j.err, c.pos, c.sz)
          ELSE Ok(Module(t.val, e.val, j.val), c.pos, c.sz)

\* the buffer of parse_binary_test
AddBinary ==
    <<0, 97, 115, 109, 1, 0, 0, 0,
      1, 7, 1, 96, 2, 127, 127, 1, 127,
      3, 2, 1, 0,
      7, 7, 1, 3, 97, 100, 100, 0, 0,
      10, 9, 1, 7, 0, 32, 0, 32, 1, 106, 11>>

\* ------------------------------------------------------------------------
\* Encoder: the byte layout of a module (header and four sections)
\* ------------------------------------------------------------------------
RECURSIVE Flatten(_)
Flatten(ss) == IF ss = <<>> THEN <<>> ELSE Head(ss) \o Flatten(Tail(ss))

EncodeValueType(vt) == IF vt = "I32" THEN VT_I32 ELSE VT_I64

EncodeValueTypes(vts) == [i \in 1..Len(vts) |-> EncodeValueType(vts[i])]

EncodeType(t) ==
    <<TYPE_FUNC, Len(t[1])>> \o EncodeValueTypes(t[1])
        \o <<Len(t[2])>> \o EncodeValueTypes(t[2])

EncodeInstr(ins) ==
    IF ins[1] = "LocalGet" THEN <<OP_LOCAL_GET, ins[2]>> ELSE <<OP_I32_ADD>>

\* tag, size of the payload, count, items
EncodeSection(tag, items) ==
    LET payload == <<Len(items)>> \o Flatten(items)
    IN <<tag, Len(payload) % 256>> \o payload

EncodeTypeSection(types) ==
    EncodeSection(SECTION_TYPE, [i \in 1..Len(types) |-> EncodeType(types[i])])

EncodeFuncSection(ftypes) ==
    EncodeSection(SECTION_FUNC, [i \in 1..Len(ftypes) |-> <<ftypes[i]>>])

\* name length, name, the reserved zero, the kind, and (idxByte) the index
EncodeExport(e, idxByte) ==
    <<Len(e.name)>> \o e.name \o <<0, e.kind>> \o (IF idxByte THEN <<e.idx>> ELSE <<>>)

EncodeExportSection(exports, idxByte) ==
    EncodeSection(SECTION_EXPORT,
                  [i \in 1..Len(exports) |-> EncodeExport(exports[i], idxByte)])

\* body size, local count, locals, instructions, end marker
EncodeCode(c) ==
    LET body == <<Len(c[1])>> \o EncodeValueTypes(c[1])
                  \o Flatten([i \in 1..Len(c[2]) |-> EncodeInstr(c[2][i])]) \o <<OP_END>>
    IN <<Len(body) % 256>> \o body

EncodeCodeSection(code) ==
    EncodeSection(SECTION_CODE, [i \in 1..Len(code) |-> EncodeCode(code[i])])

EncodeHeader == MAGIC \o <<VERSION, 0, 0, 0>>

\* the encoder: a Module to its bytes
Encode(m) ==
    EncodeHeader
      \o EncodeTypeSection(m.types)
      \o EncodeFuncSection([i \in 1..Len(m.funcs) |-> m.funcs[i].f_type])
      \o EncodeExportSection([i \in 1..Len(m.exports) |->
                                [name |-> m.exports[i].name, kind |-> EXPORT_FUNC,
                                 idx |-> m.exports[i].e_desc[2]]], TRUE)
      \o EncodeCodeSection([i \in 1..Len(m.funcs) |->
                                <<m.funcs[i].locals, m.funcs[i].body>>])

\* ------------------------------------------------------------------------
\* The buffers handed to the decoder.  A description holds the four tables
\* as they are laid out (the type indices and the bodies apart, the kind
\* byte of an export as written); idxByte tells whether an export carries
\* its index byte (the encoder's layout) or ends at the kind byte (the
\* layout of the test buffers); mut is what was done to the bytes after.
\* ------------------------------------------------------------------------
MaxParams == 2
MaxTypes == 2
MaxLocals == 1
MaxBody == 2
MaxFuncs == 2
MaxExports == 2

SeqsUpTo(S, n) == UNION {[1..k -> S] : k \in 0..n}

ValueTypes == {"I32", "I64"}

\* a table is one entry of any shape, or up to its bound of plain entries
Sigs == {<<p, r>> : p \in SeqsUpTo(ValueTypes, MaxParams), r \in SeqsUpTo(ValueTypes, 1)}
PlainSigs == {<<(<<>>), (<<>>)>>, <<(<<"I64">>), (<<"I32">>)>>}
TypeTables == {<<t>> : t \in Sigs} \cup SeqsUpTo(PlainSigs, MaxTypes)

LocalIdx == {0, OP_END}
Instrs == {<<"LocalGet", i>> : i \in LocalIdx} \cup {<<"I32Add">>}
TypeIdx == {0, 1}
RichFuncs ==
    {[f_type |-> t, locals |-> l, body |-> b] :
        t \in TypeIdx, l \in SeqsUpTo(ValueTypes, MaxLocals), b \in SeqsUpTo(Instrs, MaxBody)}
PlainFuncs ==
    {[f_type |-> 0, locals |-> <<>>, body |-> <<>>],
     [f_type |-> 1, locals |-> <<"I64">>,
      body |-> <<(<<"LocalGet", OP_END>>), (<<"I32Add">>)>>]}
FuncTables == {<<f>> : f \in RichFuncs} \cup SeqsUpTo(PlainFuncs, MaxFuncs)

GoodNames == {<<97>>, <<97, 100, 100>>, <<195, 169>>}
BadNames == {<<128>>, <<195, 40>>}
FuncIdx == {0, 1}
FuncExports == {[name |-> n, kind |-> EXPORT_FUNC, idx |-> k] : n \in GoodNames, k \in FuncIdx}
PlainExports ==
    {[name |-> <<97>>, kind |-> EXPORT_FUNC, idx |-> 0],
     [name |-> <<195, 169>>, kind |-> EXPORT_FUNC, idx |-> 1]}
RawExports == {[name |-> n, kind |-> c, idx |-> 0] :
                  n \in {<<97>>, <<195, 169>>} \cup BadNames, c \in {EXPORT_FUNC, 1}}
ExportTables == {<<e>> : e \in FuncExports} \cup SeqsUpTo(PlainExports, MaxExports)
RawExportTables == SeqsUpTo(RawExports, MaxExports)

Desc(types, funcs, exports) ==
    [types |-> types,
     ftypes |-> [i \in 1..Len(funcs) |-> funcs[i].f_type],
     exports |-> exports,
     code |-> [i \in 1..Len(funcs) |-> <<funcs[i].locals, funcs[i].body>>]]

\* the module of parse_binary_test
AddTypes == << <<(<<"I32", "I32">>), (<<"I32">>)>> >>
AddFuncs == <<[f_type |-> 0, locals |-> <<>>,
               body |-> <<(<<"LocalGet", 0>>), (<<"LocalGet", 1>>), (<<"I32Add">>)>>]>>
AddExports == <<[name |-> <<97, 100, 100>>, kind |-> EXPORT_FUNC, idx |-> 0]>>

Centres == {[t |-> AddTypes, f |-> AddFuncs, e |-> x] : x \in {<<>>, AddExports}}

\* well-formed module descriptions: one table varies, the others are a centre's
WellFormedDescs ==
    UNION {{Desc(t, c.f, c.e) : t \in TypeTables}
           \cup {Desc(c.t, f, c.e) : f \in FuncTables}
           \cup {Desc(c.t, c.f, e) : e \in ExportTables} : c \in Centres}

\* the counts of the Function and Code sections chosen apart
PlainCode == {<<f.locals, f.body>> : f \in PlainFuncs}
JoinDescs ==
    {[types |-> AddTypes, ftypes |-> ft, exports |-> e, code |-> c] :
        ft \in SeqsUpTo(TypeIdx, MaxFuncs), e \in {<<>>, AddExports},
        c \in SeqsUpTo(PlainCode, MaxFuncs)}

\* export entries with any name bytes and any kind byte
RawExportDescs == {Desc(AddTypes, AddFuncs, e) : e \in RawExportTables}

\* two signatures, two functions, two exports
TwoDesc ==
    Desc(AddTypes \o << <<(<<"I64">>), (<<>>)>> >>,
         AddFuncs \o <<[f_type |-> 1, locals |-> <<"I64">>,
                        body |-> <<(<<"LocalGet", OP_END>>), (<<"I32Add">>)>>]>>,
         AddExports \o <<[name |-> <<97>>, kind |-> EXPORT_FUNC, idx |-> 1]>>)

FuzzDescs == {Desc(AddTypes, AddFuncs, AddExports), TwoDesc}
FuzzVals == {0, 1, SECTION_CODE, OP_END, OP_LOCAL_GET, OP_I32_ADD, VT_I32}

Sections(d, idxByte) ==
    <<EncodeTypeSection(d.types), EncodeFuncSection(d.ftypes),
      EncodeExportSection(d.exports, idxByte), EncodeCodeSection(d.code)>>

Layout(d, idxByte) == EncodeHeader \o Flatten(Sections(d, idxByte))

Swap(ss, i, j) ==
    [k \in 1..Len(ss) |-> IF k = i THEN ss[j] ELSE IF k = j THEN ss[i] ELSE ss[k]]

Swaps == {<<"swap", ij[1], ij[2]>> : ij \in {p \in (1..4) \X (1..4) : p[1] < p[2]}}

\* headers: every byte the right one or another one
AltHeader == <<1, 0, 0, 0, 0, 1, 1, 1>>
Headers ==
    {[i \in 1..HEADER_LEN |-> IF i \in A THEN AltHeader[i] ELSE EncodeHeader[i]] :
        A \in SUBSET (1..HEADER_LEN)}
ShortBuffers == {SubSeq(h, 1, n) : h \in Headers, n \in 0..(HEADER_LEN - 1)}

BufOf(in) ==
    LET m == in.mut
        base == Layout(in.d, in.idxByte)
    IN CASE m[1] = "none" -> base
         [] m[1] = "swap" ->
              EncodeHeader \o Flatten(Swap(Sections(in.d, in.idxByte), m[2], m[3]))
         [] m[1] = "trunc" -> SubSeq(base, 1, m[2])
         [] m[1] = "set" -> [base EXCEPT ![m[2] + 1] = m[3]]
         [] m[1] = "hdr" -> m[2] \o Flatten(Sections(in.d, in.idxByte))
         [] m[1] = "raw" -> m[2]

In(d, idxByte, mut) == [d |-> d, idxByte |-> idxByte, mut |-> mut]

Inputs ==
    {In(d, ib, <<"none">>) :
        d \in WellFormedDescs \cup JoinDescs \cup RawExportDescs \cup FuzzDescs,
        ib \in BOOLEAN}
    \cup {In(d, ib, m) : d \in WellFormedDescs, ib \in BOOLEAN, m \in Swaps}
    \cup UNION {{In(d, ib, <<"trunc", n>>) : n \in 0..(Len(Layout(d, ib)) - 1)}
                  : d \in FuzzDescs, ib \in BOOLEAN}
    \cup UNION {{In(d, ib, <<"set", p, v>>) :
                    p \in 0..(Len(Layout(d, ib)) - 1), v \in FuzzVals}
                  : d \in FuzzDescs, ib \in BOOLEAN}
    \cup {In(Desc(AddTypes, AddFuncs, AddExports), FALSE, <<"hdr", h>>) : h \in Headers}
    \cup {In(Desc(AddTypes, AddFuncs, AddExports), FALSE, <<"raw", h>>) : h \in ShortBuffers}

\* ------------------------------------------------------------------------
\* The decoder run: parse_binary, one step per call it makes
\* ------------------------------------------------------------------------
\* input, last, starts and sizes are history: the description the buffer was
\* built from, the last call made, the offsets at which the sections parsed
\* so far began, the offsets of the size bytes read so far
\* call, vm and ret belong to the execution of an exported function: the name
\* and arguments asked for, the frame, operand stack and position in the
\* body, and what invoke_function hands back
VARIABLES input, buf, pos, pc, types, funcs, exports, code, sizes, result, last, starts,
          call, vm, ret

vars == <<input, buf, pos, pc, types, funcs, exports, code, sizes, result, last, starts,
          call, vm, ret>>

decoder == <<input, buf, pos, types, funcs, exports, code, sizes, result, last, starts>>

NoCall == [name |-> <<>>, args |-> <<>>]

NoVm == [frame |-> <<>>, stack |-> <<>>, ip |-> 0, body |-> <<>>]

Running == [tag |-> "Running", err |-> "None", val |-> <<>>]

Failed(e) == [tag |-> "Err", err |-> e, val |-> <<>>]

Returned(m) == [tag |-> "Ok", err |-> "None", val |-> m]

Outcome(r) == [tag |-> r.tag, err |-> r.err, val |-> r.val]

InitWith(in) ==
    /\ input = in
    /\ buf = BufOf(in)
    /\ pos = 0
    /\ pc = "header"
    /\ types = <<>>
    /\ funcs = <<>>
    /\ exports = <<>>
    /\ code = <<>>
    /\ sizes = {}
    /\ result = Running
    /\ last = "none"
    /\ starts = <<>>
    /\ call = NoCall
    /\ vm = NoVm
    /\ ret = Running

Init == \E in \in Inputs : InitWith(in)

\* check_header(binary)?
CheckHeader ==
    /\ pc = "header"
    /\ LET r == check_header(buf, pos)
       IN /\ pos' = r.pos
          /\ pc' = IF r.tag = "Ok" THEN "type" ELSE "done"
          /\ result' = IF r.tag = "Ok" THEN result ELSE Outcome(r)
    /\ last' = "check_header"
    /\ UNCHANGED starts
    /\ UNCHANGED <<input, buf, types, funcs, exports, code, sizes, call, vm, ret>>

\* let types = parse_type_section(binary)?
ParseTypeSection ==
    /\ pc = "type"
    /\ LET r == parse_type_section(buf, pos)
       IN /\ pos' = r.pos
          /\ starts' = IF r.tag = "Ok" THEN Append(starts, pos) ELSE starts
          /\ sizes' = sizes \cup r.sz
          /\ types' = r.val
          /\ pc' = IF r.tag = "Ok" THEN "func" ELSE "done"
          /\ result' = IF r.tag = "Ok" THEN result ELSE Outcome(r)
    /\ last' = "parse_type_section"
    /\ UNCHANGED <<input, buf, funcs, exports, code, call, vm, ret>>

\* let funcs = parse_func_section(binary)?
ParseFuncSection ==
    /\ pc = "func"
    /\ LET r == parse_func_section(buf, pos)
       IN /\ pos' = r.pos
          /\ starts' = IF r.tag = "Ok" THEN Append(starts, pos) ELSE starts
          /\ sizes' = sizes \cup r.sz
          /\ funcs' = r.val
          /\ pc' = IF r.tag = "Ok" THEN "export" ELSE "done"
          /\ result' = IF r.tag = "Ok" THEN result ELSE Outcome(r)
    /\ last' = "parse_func_section"
    /\ UNCHANGED <<input, buf, types, exports, code, call, vm, ret>>

\* let exports = parse_export_section(binary)?
ParseExportSection ==
    /\ pc = "export"
    /\ LET r == parse_export_section(buf, pos)
       IN /\ pos' = r.pos
          /\ starts' = IF r.tag = "Ok" THEN Append(starts, pos) ELSE starts
          /\ sizes' = sizes \cup r.sz
          /\ exports' = r.val
          /\ pc' = IF r.tag = "Ok" THEN "code" ELSE "done"
          /\ result' = IF r.tag = "Ok" THEN result ELSE Outcome(r)
    /\ last' = "parse_export_section"
    /\ UNCHANGED <<input, buf, types, funcs, code, call, vm, ret>>

\* let code = parse_code_section(binary)?
ParseCodeSection ==
    /\ pc = "code"
    /\ LET r == parse_code_section(buf, pos)
       IN /\ pos' = r.pos
          /\ starts' = IF r.tag = "Ok" THEN Append(starts, pos) ELSE starts
          /\ sizes' = sizes \cup r.sz
          /\ code' = r.val
          /\ pc' = IF r.tag = "Ok" THEN "join" ELSE "done"
          /\ result' = IF r.tag = "Ok" THEN result ELSE Outcome(r)
    /\ last' = "parse_code_section"
    /\ UNCHANGED <<input, buf, types, funcs, exports, call, vm, ret>>

\* Ok(Module { types, exports, funcs: join_code_func() })
BuildModule ==
    /\ pc = "join"
    /\ LET j == join_code_func(funcs, code)
       IN result' = IF j.tag = "Ok"
                    THEN [tag |-> "Ok", err |-> "None", val |-> Module(types, exports, j.val)]
                    ELSE Outcome(j)
    /\ pc' = "done"
    /\ last' = "join_code_func"
    /\ UNCHANGED <<input, buf, pos, types, funcs, exports, code, sizes, starts, call, vm, ret>>

\* ------------------------------------------------------------------------
\* The interpreter: invoke_function(binary, func, args), as main calls it
\* ------------------------------------------------------------------------
MaxArgs == 2
ArgVals == {-1, 1, 3, 4}
ArgLists == SeqsUpTo(ArgVals, MaxArgs)
CallNames == {<<97, 100, 100>>, <<98>>}

Value(v) == [tag |-> "Ok", err |-> "None", val |-> v]

Trap(e) == [tag |-> "Panic", err |-> e, val |-> <<>>]

\* the first export of that name, 0 when there is none
Lookup(es, name) ==
    IF \E i \in 1..Len(es) : es[i].name = name
    THEN CHOOSE i \in 1..Len(es) : es[i].name = name /\ \A j \in 1..(i - 1) : es[j].name # name
    ELSE 0

\* the frame: the arguments, then the declared locals at zero
NewFrame(args, locals) == args \o [i \in 1..Len(locals) |-> 0]

\* what the call comes to before the body runs: an error, or the machine
Enter(m, name, args) ==
    LET k == Lookup(m.exports, name)
    IN IF k = 0 THEN [out |-> Failed("ExportNotFound"), vm |-> NoVm]
       ELSE IF m.exports[k].e_desc[1] # "FuncExport"
            THEN [out |-> Failed("UnsupportedExportKind"), vm |-> NoVm]
       ELSE IF m.exports[k].e_desc[2] >= Len(m.funcs)
            THEN [out |-> Trap("IndexOutOfBounds"), vm |-> NoVm]
       ELSE LET f == m.funcs[m.exports[k].e_desc[2] + 1]
            IN IF f.f_type >= Len(m.types)
               THEN [out |-> Trap("IndexOutOfBounds"), vm |-> NoVm]
               ELSE IF Len(args) # Len(m.types[f.f_type + 1][1])
                    THEN [out |-> Failed("ArgumentCountMismatch"), vm |-> NoVm]
               ELSE [out |-> Running,
                     vm |-> [frame |-> NewFrame(args, f.locals), stack |-> <<>>,
                             ip |-> 1, body |-> f.body]]

\* one instruction on the machine: an error, or the machine after it
Exec(m, ins) ==
    IF ins[1] = "LocalGet"
    THEN IF ins[2] >= Len(m.frame)
         THEN [out |-> Failed("LocalIndexOutOfRange"), vm |-> m]
         ELSE [out |-> Running,
               vm |-> [m EXCEPT !.stack = Append(@, m.frame[ins[2] + 1]), !.ip = @ + 1]]
    ELSE IF Len(m.stack) < 2
         THEN [out |-> Failed("StackUnderflow"), vm |-> m]
         ELSE LET n == Len(m.stack)
              IN [out |-> Running,
                  vm |-> [m EXCEPT !.stack = Append(SubSeq(@, 1, n - 2), @[n - 1] + @[n]),
                                   !.ip = @ + 1]]

\* invoke_function: decoding failed, or the export is looked up and entered
Invoke ==
    /\ pc = "done"
    /\ \E name \in CallNames, args \in ArgLists :
          /\ call' = [name |-> name, args |-> args]
          /\ LET e == IF result.tag = "Ok" THEN Enter(result.val, name, args)
                      ELSE [out |-> result, vm |-> NoVm]
             IN /\ vm' = e.vm
                /\ ret' = e.out
                /\ pc' = IF e.out = Running THEN "exec" ELSE "exit"
    /\ UNCHANGED decoder

\* the next instruction of the body
Step ==
    /\ pc = "exec"
    /\ vm.ip <= Len(vm.body)
    /\ LET e == Exec(vm, vm.body[vm.ip])
       IN /\ vm' = e.vm
          /\ ret' = e.out
          /\ pc' = IF e.out = Running THEN "exec" ELSE "exit"
    /\ UNCHANGED <<decoder, call>>

\* the end of the body: the one value left is the result
Return ==
    /\ pc = "exec"
    /\ vm.ip > Len(vm.body)
    /\ ret' = IF Len(vm.stack) = 1 THEN Value(vm.stack[1]) ELSE Failed("ResultArityMismatch")
    /\ pc' = "exit"
    /\ UNCHANGED <<decoder, call, vm>>

Next ==
    \/ CheckHeader
    \/ ParseTypeSection
    \/ ParseFuncSection
    \/ ParseExportSection
    \/ ParseCodeSection
    \/ BuildModule

Spec == Init /\ [][Next]_vars

\* the modules executed: the test's, and one function of every small shape
ExecInstrs == {<<"LocalGet", 0>>, <<"LocalGet", 1>>, <<"I32Add">>}
ExecFuncs ==
    {[f_type |-> 0, locals |-> l, body |-> b] :
        l \in SeqsUpTo(ValueTypes, MaxLocals), b \in SeqsUpTo(ExecInstrs, MaxBody)}
ExecInputs ==
    {In(Desc(AddTypes, <<f>>, AddExports), FALSE, <<"none">>) : f \in ExecFuncs}
    \cup {In(d, ib, <<"none">>) : d \in FuzzDescs, ib \in BOOLEAN}

InitExec == \E in \in ExecInputs : InitWith(in)

NextExec == Next \/ Invoke \/ Step \/ Return

SpecExec == InitExec /\ [][NextExec]_vars

\* ------------------------------------------------------------------------
\* What a description stands for
\* ------------------------------------------------------------------------
WellFormed(d) ==
    /\ Len(d.ftypes) = Len(d.code)
    /\ \A i \in 1..Len(d.exports) :
          d.exports[i].kind = EXPORT_FUNC /\ d.exports[i].name \in GoodNames

ModuleOf(d) ==
    Module(d.types,
           [i \in 1..Len(d.exports) |->
               [name |-> d.exports[i].name, e_desc |-> <<"FuncExport", d.exports[i].idx>>]],
           [i \in 1..Len(d.ftypes) |->
               [f_type |-> d.ftypes[i], locals |-> d.code[i][1], body |-> d.code[i][2]]])

\* ------------------------------------------------------------------------
\* C2  Header rejection
\* ------------------------------------------------------------------------
HeaderVerdict(b) ==
    IF Len(b) < 8 THEN "ModuleToShort"
    ELSE IF \E i \in 1..4 : b[i] # MAGIC[i] THEN "WrongMagicHeader"
    ELSE IF SubSeq(b, 5, 8) # <<1, 0, 0, 0>> THEN "WrongVersionHeader"
    ELSE "pass"

\* C2: once check_header has run, a buffer of fewer than 8 bytes has failed
\* with ModuleToShort whatever it holds; else one whose bytes 0..3 are not
\* "\0asm" has failed with WrongMagicHeader; else one whose version field is
\* not 1 has failed with WrongVersionHeader; and only a buffer with the right
\* magic and version got past the header, the cursor on byte 8.
C2_HeaderRejection ==
    last # "none" =>
        IF HeaderVerdict(buf) = "pass"
        THEN /\ result.err \notin {"ModuleToShort", "WrongMagicHeader", "WrongVersionHeader"}
             /\ (last = "check_header" => pc = "type" /\ pos = 8 /\ result = Running)
        ELSE pc = "done" /\ last = "check_header" /\ result = Failed(HeaderVerdict(buf))

C2_Witness ==
    /\ pc = "done"
    /\ Len(buf) >= 8
    /\ SubSeq(buf, 1, 5) = MAGIC \o <<1>>
    /\ result = Failed("WrongVersionHeader")

\* ------------------------------------------------------------------------
\* C3  Section order enforcement
\* ------------------------------------------------------------------------
SectionTags == <<SECTION_TYPE, SECTION_FUNC, SECTION_EXPORT, SECTION_CODE>>

Valid(b) == parse_binary(b).tag = "Ok"

\* C3: the k-th section parsed began at a byte holding the k-th of the tags
\* Type, Function, Export, Code, and the sections were parsed in that order;
\* a buffer that decodes, with two of its four sections swapped, has failed
\* with InvalidSectionCode once the decoder is done.
C3_SectionOrder ==
    /\ Len(starts) <= 4
    /\ \A k \in 1..Len(starts) : buf[starts[k] + 1] = SectionTags[k]
    /\ \A k \in 1..(Len(starts) - 1) : starts[k] < starts[k + 1]
    /\ (pc = "done" /\ input.mut[1] = "swap" /\ Valid(Layout(input.d, input.idxByte)))
          => result = Failed("InvalidSectionCode")

C3_Witness ==
    /\ pc = "done"
    /\ input.mut = <<"swap", 2, 4>>
    /\ Valid(Layout(input.d, input.idxByte))
    /\ Len(input.d.exports) = 1
    /\ Len(starts) = 1
    /\ result = Failed("InvalidSectionCode")

\* ------------------------------------------------------------------------
\* C5  Unknown instruction
\* ------------------------------------------------------------------------
CodeStart(d, idxByte) ==
    HEADER_LEN + Len(EncodeTypeSection(d.types)) + Len(EncodeFuncSection(d.ftypes))
        + Len(EncodeExportSection(d.exports, idxByte))

\* the offset of the i-th instruction of the k-th body (the end marker when
\* i is one more than the body's length)
InstrStart(d, idxByte, k, i) ==
    CodeStart(d, idxByte) + 3
        + Len(Flatten([j \in 1..(k - 1) |-> EncodeCode(d.code[j])]))
        + 2 + Len(d.code[k][1])
        + Len(Flatten([j \in 1..(i - 1) |-> EncodeInstr(d.code[k][2][j])]))

TagSlots(d, idxByte) ==
    UNION {{InstrStart(d, idxByte, k, i) : i \in 1..(Len(d.code[k][2]) + 1)} :
              k \in 1..Len(d.code)}

OperandSlots(d) ==
    UNION {{<<k, i>> : i \in {j \in 1..Len(d.code[k][2]) : d.code[k][2][j][1] = "LocalGet"}} :
              k \in 1..Len(d.code)}

InstrTags == {OP_LOCAL_GET, OP_I32_ADD, OP_END}

\* C5: in a buffer whose sections before the Code section are well formed,
\* (a) a byte other than 0x20, 0x6A, 0x0B written over an instruction tag or
\* an end marker makes parse_code_section fail with InvalidInstruction and
\* leaves no code entries; (b) any byte written over the index of a
\* local.get decodes as that LocalGet's index, the rest of the module
\* unchanged; (c) an untouched buffer decodes to the bodies it was built
\* from, also where an index byte equals 0x0B or 0x20.
C5_UnknownInstruction ==
    LET d == input.d
        m == input.mut
    IN /\ (/\ pc = "done" /\ ~input.idxByte /\ m[1] = "set"
           /\ m[2] \in TagSlots(d, FALSE) /\ m[3] \notin InstrTags)
          => (/\ last = "parse_code_section"
              /\ result = Failed("InvalidInstruction")
              /\ code = <<>>)
       /\ (pc = "done" /\ ~input.idxByte /\ m[1] = "set")
          => \A ki \in OperandSlots(d) :
                m[2] = InstrStart(d, FALSE, ki[1], ki[2]) + 1
                => /\ result.tag = "Ok"
                   /\ code = [d.code EXCEPT ![ki[1]][2][ki[2]] = <<"LocalGet", m[3]>>]
                   /\ result.val.funcs[ki[1]].body[ki[2]] = <<"LocalGet", m[3]>>
       /\ (/\ last \in {"parse_code_section", "join_code_func"}
           /\ ~input.idxByte /\ m[1] = "none" /\ WellFormed(d))
          => code = d.code

C5_Witness ==
    /\ pc = "done"
    /\ ~input.idxByte
    /\ input.d = TwoDesc
    /\ input.mut = <<"set", InstrStart(TwoDesc, FALSE, 2, 2), SECTION_CODE>>
    /\ result = Failed("InvalidInstruction")

\* ------------------------------------------------------------------------
\* C6  Export rejection
\* ------------------------------------------------------------------------
BadExport(e) == e.kind # EXPORT_FUNC \/ e.name \in BadNames

FirstBad(es) == CHOOSE i \in 1..Len(es) :
                    BadExport(es[i]) /\ \A j \in 1..(i - 1) : ~BadExport(es[j])

SizeVals == {0, 1, OP_END, VT_I32}

Override(b, S, v) == [i \in 1..Len(b) |-> IF (i - 1) \in S THEN v ELSE b[i]]

\* C10: once the decoder is done, the buffer with any one of the size bytes
\* it read, or all of them, set to another value decodes to the same
\* outcome: the same Module, the same error, or the same failure.
C10_SizeBytesIgnored ==
    pc = "done" =>
        \A v \in SizeVals :
            \A S \in {sizes} \cup {{p} : p \in sizes} :
                Outcome(parse_binary(Override(buf, S, v))) = result

C10_Witness ==
    /\ pc = "done"
    /\ result.tag = "Ok"
    /\ Cardinality(sizes) = 6
    /\ input.mut[1] = "set"
    /\ input.mut[2] \in sizes
    /\ buf # Layout(input.d, input.idxByte)

\* ------------------------------------------------------------------------
\* C1  Round trip
\* ------------------------------------------------------------------------
\* a module description whose indices point into its own tables
Closed(d) ==
    /\ WellFormed(d)
    /\ \A i \in 1..Len(d.ftypes) : d.ftypes[i] < Len(d.types)
    /\ \A i \in 1..Len(d.exports) : d.exports[i].idx < Len(d.ftypes)

\* C1: the bytes the encoder emits for a well-formed module decode to a
\* Module equal to it: the same types, functions and exports, each export
\* with its function index.
C1_RoundTrip ==
    (/\ pc = "done"
     /\ input.mut = <<"none">>
     /\ Closed(input.d)
     /\ buf = Encode(ModuleOf(input.d)))
    => result = Returned(ModuleOf(input.d))

\* ------------------------------------------------------------------------
\* C8  Export entry decoding
\* ------------------------------------------------------------------------
\* C8: from export entries laid out as name length, name, reserved zero,
\* kind 0x00, function index, parse_export_section yields each name with
\* FuncExport of the index in its entry and leaves the cursor on the tag of
\* the Code section.
C8_ExportEntryDecoding ==
    (/\ last = "parse_export_section"
     /\ input.mut = <<"none">>
     /\ input.idxByte
     /\ Closed(input.d)
     /\ Len(input.d.exports) >= 1)
    => /\ pc = "code"
       /\ exports = ModuleOf(input.d).exports
       /\ pos = CodeStart(input.d, TRUE)

\* ------------------------------------------------------------------------
\* C4  Truncated input
\* ------------------------------------------------------------------------
\* C4: a buffer with a valid header that ends before its four sections are
\* complete makes parse_binary return the error UnexpectedEndOfInput.
C4_TruncatedIsTypedError ==
    (/\ pc = "done"
     /\ input.mut[1] = "trunc"
     /\ input.mut[2] >= HEADER_LEN
     /\ ~input.idxByte)
    => result = Failed("UnexpectedEndOfInput")

\* ------------------------------------------------------------------------
\* C9  Positional join
\* ------------------------------------------------------------------------
\* C9: a complete buffer never makes the decoder unwind, and a Module it
\* returns has as many functions as the Function section and as the Code
\* section have entries, the i-th with the i-th type index and the i-th
\* body.
C9_PositionalJoin ==
    (/\ pc = "done"
     /\ input.mut = <<"none">>
     /\ ~input.idxByte
     /\ input.d \in JoinDescs)
    => /\ result.tag # "Panic"
       /\ result.tag = "Ok" =>
             /\ Len(result.val.funcs) = Len(input.d.ftypes)
             /\ Len(result.val.funcs) = Len(input.d.code)
             /\ \A i \in 1..Len(result.val.funcs) :
                   result.val.funcs[i] = [f_type |-> input.d.ftypes[i],
                                          locals |-> input.d.code[i][1],
                                          body |-> input.d.code[i][2]]

\* ------------------------------------------------------------------------
\* C7  Arithmetic correctness of execution
\* ------------------------------------------------------------------------
AddName == <<97, 100, 100>>

\* C7: on the module decoded from the buffer of parse_binary_test, calling
\* "add" with two arguments a and b ends with the value a + b, and when the
\* body has run to its end the operand stack holds that one value.
C7_AddReturnsSum ==
    (buf = AddBinary /\ call.name = AddName /\ Len(call.args) = 2)
    => /\ pc = "exit" => ret = Value(call.args[1] + call.args[2])
       /\ (pc = "exec" /\ vm.ip > Len(vm.body))
             => vm.stack = <<call.args[1] + call.args[2]>>
       /\ pc = "exec" => vm.frame = call.args /\ Len(vm.body) = 3

C7_Witness ==
    /\ buf = AddBinary
    /\ pc = "exit"
    /\ call = [name |-> AddName, args |-> <<-1, 1>>]
    /\ ret = Value(0)

TypeOK == pc \in {"header", "type", "func", "export", "code", "join", "done", "exec", "exit"}
====
